---- MODULE Spec2Model ----
(***************************************************************************)
(* A model of invoice_to_csv.py: the command line handling, the batch loop *)
(* of process_pdfs, the text extraction of parse_pdf, the category lookup  *)
(* and the CSV rendering of Asset.to_string.                               *)
(*                                                                         *)
(* Python strings are TLA+ strings (TLC evaluates Len, SubSeq and \o on    *)
(* them); Python lists are sequences; Python indexes are 0-based and are   *)
(* kept 0-based in the operators that take an index.                       *)
(***************************************************************************)
EXTENDS Integers, Sequences, FiniteSets

(***************************************************************************)
(* Python's str and list operations, as the interpreter computes them.     *)
(***************************************************************************)

\* s[k] for a valid 0-based index k
char(s, k) == SubSeq(s, k + 1, k + 1)

\* a slice bound, as Python normalises it: negative counts from the end,
\* and the result is clamped to 0..len
slice_bound(n, x) ==
    IF x < 0 THEN (IF n + x < 0 THEN 0 ELSE n + x) ELSE (IF x > n THEN n ELSE x)

\* s[a:b]
slice(s, a, b) ==
    LET lo == slice_bound(Len(s), a)
        hi == slice_bound(Len(s), b)
    IN  IF lo >= hi THEN SubSeq(s, 1, 0) ELSE SubSeq(s, lo + 1, hi)

\* s[a:]
slice_from(s, a) == slice(s, a, Len(s))

\* s[:b]
slice_to(s, b) == slice(s, 0, b)

\* the least element of a non-empty set of integers
least(S) == CHOOSE k \in S : \A j \in S : k <= j

\* s.find(sub): the lowest 0-based index of sub in s, or -1
find(s, sub) ==
    LET hits == {k \in 0..(Len(s) - Len(sub)) : SubSeq(s, k + 1, k + Len(sub)) = sub}
    IN  IF hits = {} THEN -1 ELSE least(hits)

Whitespace == {" ", "\n", "\t", "\r", "\f"}

RECURSIVE lstrip_at(_, _)
lstrip_at(s, k) ==
    IF k < Len(s) /\ char(s, k) \in Whitespace THEN lstrip_at(s, k + 1) ELSE k

RECURSIVE rstrip_at(_, _)
rstrip_at(s, k) ==
    IF k > 0 /\ char(s, k - 1) \in Whitespace THEN rstrip_at(s, k - 1) ELSE k

\* s.strip()
strip(s) == slice(s, lstrip_at(s, 0), rstrip_at(s, Len(s)))

RECURSIVE split(_, _)
\* s.split(sep), sep not empty
split(s, sep) ==
    LET p == find(s, sep)
    IN  IF p = -1 THEN <<s>>
        ELSE <<slice_to(s, p)>> \o split(slice_from(s, p + Len(sep)), sep)

\* s.split(sep)[0]: s up to the first sep, all of s if there is none
split_first(s, sep) ==
    LET p == find(s, sep) IN IF p = -1 THEN s ELSE slice_to(s, p)

\* the 0-based index of the first line break of s, or -1
line_break_at(s) ==
    LET hits == {k \in 0..(Len(s) - 1) : char(s, k) \in {"\n", "\r", "\f"}}
    IN  IF hits = {} THEN -1 ELSE least(hits)

RECURSIVE splitlines(_)
\* s.splitlines(): no line for the empty string after the last break
splitlines(s) ==
    IF Len(s) = 0 THEN <<>>
    ELSE LET p == line_break_at(s)
             w == IF p >= 0 /\ slice(s, p, p + 2) = "\r\n" THEN 2 ELSE 1
         IN  IF p = -1 THEN <<s>>
             ELSE <<slice_to(s, p)>> \o splitlines(slice_from(s, p + w))

RECURSIVE replace(_, _, _)
\* s.replace(old, new), old not empty
replace(s, old, new) ==
    LET p == find(s, old)
    IN  IF p = -1 THEN s
        ELSE slice_to(s, p) \o new \o replace(slice_from(s, p + Len(old)), old, new)

UpperCase == "ABCDEFGHIJKLMNOPQRSTUVWXYZ"
LowerCase == "abcdefghijklmnopqrstuvwxyz"

UpperChars ==
    {"A", "B", "C", "D", "E", "F", "G", "H", "I", "J", "K", "L", "M",
     "N", "O", "P", "Q", "R", "S", "T", "U", "V", "W", "X", "Y", "Z"}

lower_char(c) ==
    IF c \in UpperChars THEN char(LowerCase, find(UpperCase, c)) ELSE c

upper_char(c) ==
    LET k == find(LowerCase, c) IN IF k = -1 THEN c ELSE char(UpperCase, k)

RECURSIVE lower(_)
\* s.lower(), character by character (the two halves keep the recursion shallow)
lower(s) ==
    IF Len(s) = 0 THEN s
    ELSE IF Len(s) = 1 THEN lower_char(s)
    ELSE lower(slice_to(s, Len(s) \div 2)) \o lower(slice_from(s, Len(s) \div 2))

\* s.capitalize(): the first character upper-cased, the rest lower-cased
capitalize(s) ==
    IF Len(s) = 0 THEN s ELSE upper_char(char(s, 0)) \o lower(slice_from(s, 1))

RECURSIVE join(_, _)
\* sep.join(list)
join(sep, list) ==
    IF Len(list) = 0 THEN ""
    ELSE IF Len(list) = 1 THEN list[1]
    ELSE list[1] \o sep \o join(sep, Tail(list))

RECURSIVE concat(_)
\* reduce(lambda x, y: x + y, lists), lists not empty
concat(lists) ==
    IF Len(lists) = 1 THEN lists[1] ELSE lists[1] \o concat(Tail(lists))

\* list(filter(lambda x: x != "", list))
filter_nonempty(list) == SelectSeq(list, LAMBDA x : x /= "")

RECURSIVE map_strip(_)
\* list(map(str.strip, list))
map_strip(list) ==
    IF Len(list) = 0 THEN <<>> ELSE <<strip(Head(list))>> \o map_strip(Tail(list))

RECURSIVE map_splitlines(_)
\* list(map(str.splitlines, list))
map_splitlines(list) ==
    IF Len(list) = 0 THEN <<>>
    ELSE <<splitlines(Head(list))>> \o map_splitlines(Tail(list))

\* list.pop(k) for a valid 0-based index k: the list that is left
pop_rest(list, k) == SubSeq(list, 1, k) \o SubSeq(list, k + 2, Len(list))

(***************************************************************************)
(* The program's constants.                                                *)
(***************************************************************************)

CSV_HEADER ==
    "Item Name,Category,Location,Purchase Date,Purchase Cost,Model Name,Model Number,Serial Number,Order Number,Requestable,Last Audit\n"

COMMON_CATEGORIES ==
    <<"Laptop", "Desktop", "Access Point", "Smartphone", "Router", "Switch">>

START_STRING == "Billable  Products & Other Charges"
END_STRING == "Total"

\* Python's None, and a value that is not None, for a result that may be None
None == <<>>
Some(v) == <<v>>

(***************************************************************************)
(* class Asset                                                             *)
(***************************************************************************)

\* Asset.__init__
Asset(model_no, name, model, price, serial_nos, date, order_no, category) ==
    [model_no |-> model_no, name |-> name, model |-> model, price |-> price,
     serial_nos |-> serial_nos, location |-> "Naples Office", date |-> date,
     order_no |-> order_no, category |-> category, requestable |-> "true",
     last_audit_date |-> date]

\* a variant that differs from the code: every row carries the first serial number
asset_str_first_serial(self, serial_no) ==
    self.name \o "," \o self.category \o "," \o self.location \o "," \o self.date
    \o "," \o self.price \o "," \o self.model \o "," \o self.model_no
    \o "," \o self.serial_nos[1] \o "," \o self.order_no \o "," \o self.requestable
    \o "," \o self.last_audit_date \o "\n"

\* one turn of to_string's loop: the row of one serial number
asset_str(self, serial_no) ==
    self.name \o "," \o self.category \o "," \o self.location \o "," \o self.date
    \o "," \o self.price \o "," \o self.model \o "," \o self.model_no
    \o "," \o serial_no \o "," \o self.order_no \o "," \o self.requestable
    \o "," \o self.last_audit_date \o "\n"

RECURSIVE assets_str(_, _)
assets_str(self, serial_nos) ==
    IF Len(serial_nos) = 0 THEN ""
    ELSE asset_str(self, Head(serial_nos)) \o assets_str(self, Tail(serial_nos))

\* Asset.to_string
to_string(self) == assets_str(self, self.serial_nos)

(***************************************************************************)
(* The category of an asset.                                               *)
(***************************************************************************)

RECURSIVE scan_categories(_, _, _)
\* the loop of check_for_common_categories from the k-th category on;
\* lowered is name.lower()
scan_categories(lowered, k, found_category) ==
    IF k > Len(COMMON_CATEGORIES) THEN found_category
    ELSE scan_categories(lowered, k + 1,
            IF find(lowered, lower(COMMON_CATEGORIES[k])) >= 0
            THEN Some(COMMON_CATEGORIES[k]) ELSE found_category)

\* the first category of the list that the name holds
RECURSIVE first_category(_, _)
first_category(lowered, k) ==
    IF k > Len(COMMON_CATEGORIES) THEN None
    ELSE IF find(lowered, lower(COMMON_CATEGORIES[k])) >= 0
    THEN Some(COMMON_CATEGORIES[k])
    ELSE first_category(lowered, k + 1)

\* a variant that differs from the code: the loop stops at the first category found
check_for_first_category(name) == first_category(lower(name), 1)

check_for_common_categories(name) ==
    LET lowered == lower(name) IN scan_categories(lowered, 1, None)

\* get_category(model_no, name, model); answer is what the operator types if
\* the prompt is shown
get_category(model_no, name, model, answer) ==
    LET category == check_for_common_categories(name)
    IN  IF category = None
        THEN [category |-> capitalize(answer), prompted |-> TRUE]
        ELSE [category |-> category[1], prompted |-> FALSE]

(***************************************************************************)
(* parse_pdf                                                               *)
(***************************************************************************)

get_next_item(text, word_before) ==
    split_first(split_first(strip(slice_from(text, find(text, word_before)
                                                          + Len(word_before))),
                            " "), "\n")

NoAsset == Asset("", "", "", "", <<>>, "", "", "")

\* parse_pdf ends by an exception, or returns an Asset
Raised(exc, prompted) == [exc |-> exc, asset |-> NoAsset, prompted |-> prompted]
Returned(asset, prompted) == [exc |-> "", asset |-> asset, prompted |-> prompted]

\* the item block between the two anchors
item_of(page_text) ==
    LET start_i == find(page_text, START_STRING) + Len(START_STRING)
        end_i == find(page_text, END_STRING)
    IN  strip(slice(page_text, start_i, end_i))

\* info_list before the three pops
info_list_of(info) ==
    LET by_spaces == filter_nonempty(split(info, "  "))
        by_lines == map_splitlines(by_spaces)
    IN  IF Len(by_lines) = 0 THEN None ELSE Some(concat(by_lines))

\* the order date, from MM/DD/YYYY to YYYY-MM-DD
date_of(page_text) ==
    LET date == replace(get_next_item(page_text, "BCB Homes"), "/", "-")
    IN  IF Len(date) < 6 THEN None
        ELSE Some(slice_from(date, 6) \o char(date, 5) \o slice_to(date, 5))

\* a variant that differs from the code: the "," of the price is left in
price_text_with_commas(price) == strip(replace(price, "$", ""))

\* the price with its "," and "$" removed
price_text(price) == strip(replace(replace(price, ",", ""), "$", ""))

parse_pdf(page_text, answer) ==
    LET item == item_of(page_text)
        parts == split(item, ": ")
    IN  IF Len(parts) < 2 THEN Raised("IndexError", FALSE)
        ELSE
        LET model_no == parts[1]
            info == slice_to(parts[2], find(parts[2], "Serial"))
            info_list == info_list_of(info)
        IN  IF info_list = None THEN Raised("TypeError", FALSE)
            ELSE IF Len(info_list[1]) < 4 THEN Raised("IndexError", FALSE)
            ELSE
            LET without_quantity == pop_rest(info_list[1], 1)
                price == price_text(without_quantity[2])
                without_price == pop_rest(without_quantity, 1)
                without_total == pop_rest(without_price, 1)
                model == split_first(without_total[1], ", ")
                name == replace(join(" ", without_total), ",", "")
                serial_nos == map_strip(split(parts[Len(parts)], ","))
                date == date_of(page_text)
                order_no == get_next_item(page_text, "Service Request Number")
                category == get_category(model_no, model, name, answer)
            IN  IF date = None THEN Raised("IndexError", FALSE)
                ELSE Returned(Asset(model_no, name, model, price, serial_nos,
                                    date[1], order_no, category.category),
                              category.prompted)

(***************************************************************************)
(* The command line and the files.                                         *)
(***************************************************************************)

\* list[k] for a valid 0-based index k
item_at(list, k) == list[k + 1]

RECURSIVE scan_flags(_, _, _, _)
\* the first loop of check_for_flags from index i on; n is len(sys.argv) as
\* range() read it before the loop, argv is sys.argv as the pops have left it
scan_flags(argv, flags, i, n) ==
    IF i >= n THEN [argv |-> argv, flags |-> flags, exc |-> ""]
    ELSE IF i >= Len(argv) \/ Len(item_at(argv, i)) = 0
    THEN [argv |-> argv, flags |-> flags, exc |-> "IndexError"]
    ELSE IF char(item_at(argv, i), 0) = "-"
    THEN scan_flags(pop_rest(argv, i), Append(flags, item_at(argv, i)), i + 1, n)
    ELSE scan_flags(argv, flags, i + 1, n)

\* the second loop of check_for_flags: is the usage message asked for
help_flag(flags) == \E k \in 1..Len(flags) : flags[k] = "-h" \/ flags[k] = "--help"

is_pdf_name(name) == slice_from(name, -4) = ".pdf"

\* check_file_types
check_file_types(file_names) ==
    [pdf_names |-> SelectSeq(file_names, is_pdf_name),
     invalid_names |-> SelectSeq(file_names, LAMBDA name : ~is_pdf_name(name))]

\* the text of a page in the vendor's layout around an item block
page_around(start, block, end) ==
    "BCB Homes  03/14/2024\nService Request Number   531363\n"
    \o start \o "\n" \o block \o "\n" \o end \o "  $1,000.00\n"

\* the files on disk: what PdfReader(pdf_name).pages[0].extract_text gives,
\* or None for a file that is not there (FileNotFoundError)
page_text_of(pdf_name) ==
    CASE pdf_name = "a.pdf" ->
           Some(page_around(START_STRING,
                "LT-5440: Latitude Laptop, Dell 5440  1  $1,250.50  $1,250.50  Serial Numbers: SN7",
                END_STRING))
      [] pdf_name = "c.pdf" ->
           Some(page_around(START_STRING, "MN-100: ModelX, Widget Pro  2 Serial Numbers: SN1",
                END_STRING))
      [] pdf_name = "d.pdf" ->
           Some(page_around(START_STRING,
                "MN-100: ModelX, Widget Pro  2  $500.00  $1,000.00  Serial Numbers: SN1, SN2",
                END_STRING))
      [] OTHER -> None

\* a variant that differs from the code: the write replaces the content of the stream
add_to_csv_from_start(content, data) == data

\* add_to_csv: the content of the stream after csv.write(data)
add_to_csv(content, data) == content \o data

\* a line on the terminal: something printed, or something typed at a prompt
Line(ev, arg) == [ev |-> ev, arg |-> arg]

RECURSIVE invalid_lines(_)
\* [print("\t" + name) for name in invalid_names]
invalid_lines(names) ==
    IF Len(names) = 0 THEN <<>>
    ELSE <<Line("invalid", Head(names))>> \o invalid_lines(Tail(names))

(***************************************************************************)
(* The inputs of the model.                                                *)
(***************************************************************************)

MaxArgs == 3
MaxSerials == 2
MaxWords == 3

Args == {"-h", "--help", "-x", "a.pdf", "b.pdf", "c.pdf", "d.pdf", "notes.txt"}
ArgLists == UNION {[1..n -> Args] : n \in 0..MaxArgs}
\* what the operator types when asked for file names
NameInputs == {"", "d.pdf", "b.pdf a.pdf", "notes.txt c.pdf"}
\* what the operator types when asked to overwrite the output file
Selections == {"y", "n"}
\* what the operator types when asked for a category
Answers == {"", "monitor"}

\* the fields of an item block as the vendor prints them
ModelNumbers == {"MN-100", "LT-5440"}
Descriptions ==
    {[model |-> "ModelX", name |-> "Widget Pro"],
     [model |-> "Latitude 5440", name |-> "Dell Laptop"],
     [model |-> "Optiplex Desktop", name |-> "Dell Tower"]}
Amounts ==
    {[quantity |-> "2", unit_price |-> "$500.00", total_price |-> "$1,000.00"],
     [quantity |-> "1", unit_price |-> "$1,250.50", total_price |-> "$1,250.50"],
     [quantity |-> "3", unit_price |-> "99", total_price |-> "297"]}
SerialNumbers == {"SN1", "SN2"}
SerialLists(least_len) == UNION {[1..n -> SerialNumbers] : n \in least_len..MaxSerials}
\* the order of the columns of an item block
Layouts == {"description first", "quantity first", "short"}
\* which of the two anchors the page has
Anchors == {"both", "no start", "no end"}

Blocks ==
    {[layout |-> l, model_number |-> mn, description |-> d, amounts |-> a,
      serial_numbers |-> sn] :
        l \in Layouts, mn \in ModelNumbers, d \in Descriptions, a \in Amounts,
        sn \in SerialLists(1)}

\* the text of an item block
block_text(b) ==
    LET description == b.description.model \o ", " \o b.description.name
        amounts == b.amounts.quantity \o "  " \o b.amounts.unit_price \o "  "
                   \o b.amounts.total_price
        serials == "Serial Numbers: " \o join(", ", b.serial_numbers)
    IN  b.model_number \o ": " \o
        CASE b.layout = "description first" ->
                description \o "  " \o amounts \o "  " \o serials
          [] b.layout = "quantity first" ->
                amounts \o "  " \o description \o " " \o serials
          [] OTHER ->
                description \o "  " \o b.amounts.quantity \o " " \o serials

\* the page text that parse_pdf is called with
page_of(c) ==
    page_around(IF c.anchors = "no start" THEN "Items" ELSE START_STRING,
                block_text(c.block),
                IF c.anchors = "no end" THEN "Sum" ELSE END_STRING)

\* the assets that to_string is called on
Assets ==
    {Asset("MN-100", name, model, price, serial_nos, "2024-03-14", order_no, category) :
        name \in {"Widget Pro", "Widget, Pro"}, model \in {"ModelX", "Model\nX"},
        price \in {"500.00", "1,000.00"}, serial_nos \in SerialLists(0),
        order_no \in {"531363", ""}, category \in {"Laptop", ""}}

\* the names that check_for_common_categories is called on
Words == {"LAPTOP", "switch", "Access", "Point", "Desktops"}
Names == {join(" ", ws) : ws \in UNION {[1..n -> Words] : n \in 0..MaxWords}}

(***************************************************************************)
(* The state.                                                              *)
(***************************************************************************)

VARIABLES
    cmdline,        \* the arguments the process was started with
    argv,           \* sys.argv
    pdf_names,      \* main's pdf_names
    invalid_names,  \* main's invalid_names
    csv,            \* None, or the content written to the stream csv
    i,              \* how many of pdf_names the loop of process_pdfs has done
    pc,             \* where the process is
    exc,            \* the exception that ended the process, or ""
    console,        \* the lines on the terminal
    call,           \* for a function taken alone: its arguments
    ret             \* for a function taken alone: its result

vars == <<cmdline, argv, pdf_names, invalid_names, csv, i, pc, exc, console, call, ret>>
main_vars == <<cmdline, argv, pdf_names, invalid_names, csv, i, exc, console>>

NoCall == [fn |-> "none"]

(***************************************************************************)
(* main()                                                                  *)
(***************************************************************************)

Init ==
    /\ cmdline \in ArgLists
    /\ argv = <<"invoice_to_csv.py">> \o cmdline
    /\ pdf_names = <<>>
    /\ invalid_names = <<>>
    /\ csv = None
    /\ i = 0
    /\ pc = "check_for_flags"
    /\ exc = ""
    /\ console = <<>>
    /\ call = NoCall
    /\ ret = None

\* check_for_flags()
CheckForFlags ==
    /\ pc = "check_for_flags"
    /\ LET scan == scan_flags(argv, <<>>, 1, Len(argv))
       IN  /\ argv' = scan.argv
           /\ exc' = scan.exc
           /\ pc' = IF scan.exc /= "" THEN "crashed"
                    ELSE IF help_flag(scan.flags) THEN "exited"
                    ELSE "get_pdf_names"
           /\ console' = IF scan.exc = "" /\ help_flag(scan.flags)
                         THEN Append(console, Line("usage", ""))
                         ELSE console
    /\ UNCHANGED <<cmdline, pdf_names, invalid_names, csv, i, call, ret>>

\* get_pdf_names()
GetPdfNames ==
    /\ pc = "get_pdf_names"
    /\ \E typed \in NameInputs :
         LET asked == ~(Len(argv) > 1)
             names == IF asked THEN split(typed, " ") ELSE SubSeq(argv, 2, Len(argv))
             checked == check_file_types(names)
         IN  /\ pdf_names' = checked.pdf_names
             /\ invalid_names' = checked.invalid_names
             /\ console' = IF asked THEN Append(console, Line("names typed", typed))
                           ELSE console
    /\ pc' = "create_csv"
    /\ UNCHANGED <<cmdline, argv, csv, i, exc, call, ret>>

\* process_pdfs up to its loop: create_csv(csv_name, CSV_HEADER). The file is
\* new, or is there already and the operator is asked, or cannot be made.
CreateCsv ==
    /\ pc = "create_csv"
    /\ \E outcome \in {"new", "exists", "OSError"} : \E typed \in Selections :
         LET overwrite == lower(typed) = "y" \/ lower(typed) = "yes"
             opened == outcome = "new" \/ (outcome = "exists" /\ overwrite)
         IN  /\ csv' = IF opened THEN Some(CSV_HEADER) ELSE None
             /\ pc' = IF opened THEN "loop" ELSE "exited"
             /\ console' = console \o
                    CASE outcome = "new" -> <<Line("created", "")>>
                      [] outcome = "exists" /\ overwrite ->
                            <<Line("overwrite typed", typed), Line("overwritten", "")>>
                      [] outcome = "exists" /\ ~overwrite ->
                            <<Line("overwrite typed", typed)>>
                      [] OTHER -> <<Line("invalid filename", "")>>
    /\ UNCHANGED <<cmdline, argv, pdf_names, invalid_names, i, exc, call, ret>>

\* the except clause of the loop of process_pdfs: the exceptions it handles
handled(raised) == raised = "FileNotFoundError"

\* one turn of the loop of process_pdfs
ProcessPdf ==
    /\ pc = "loop"
    /\ i < Len(pdf_names)
    /\ \E answer \in Answers :
         LET pdf_name == item_at(pdf_names, i)
             page_text == page_text_of(pdf_name)
             parsed == IF page_text = None THEN Raised("FileNotFoundError", FALSE)
                       ELSE parse_pdf(page_text[1], answer)
             typed == IF parsed.prompted THEN <<Line("category typed", answer)>>
                      ELSE <<>>
             shown == console \o <<Line("processing", pdf_name)>> \o typed
         IN  IF parsed.exc = ""
             THEN /\ csv' = Some(add_to_csv(csv[1], to_string(parsed.asset)))
                  /\ console' = Append(shown, Line("finished", pdf_name))
                  /\ i' = i + 1
                  /\ UNCHANGED <<pc, exc>>
             ELSE IF handled(parsed.exc)
             THEN /\ console' = Append(shown, Line("not found", pdf_name))
                  /\ i' = i + 1
                  /\ UNCHANGED <<csv, pc, exc>>
             ELSE \* no handler for it: the process ends
                  /\ console' = shown
                  /\ exc' = parsed.exc
                  /\ pc' = "crashed"
                  /\ UNCHANGED <<csv, i>>
    /\ UNCHANGED <<cmdline, argv, pdf_names, invalid_names, call, ret>>

\* the end of main: the invalid file names are listed
ReportInvalid ==
    /\ pc = "loop"
    /\ i = Len(pdf_names)
    /\ pc' = "done"
    /\ console' = console \o invalid_lines(invalid_names)
    /\ UNCHANGED <<cmdline, argv, pdf_names, invalid_names, csv, i, exc, call, ret>>

Next == CheckForFlags \/ GetPdfNames \/ CreateCsv \/ ProcessPdf \/ ReportInvalid

Spec == Init /\ [][Next]_vars

(***************************************************************************)
(* The functions taken alone: the arguments are drawn in the initial       *)
(* state, and the one step is the call.                                    *)
(***************************************************************************)

NoProcess ==
    /\ cmdline = <<>>
    /\ argv = <<>>
    /\ pdf_names = <<>>
    /\ invalid_names = <<>>
    /\ csv = None
    /\ i = 0
    /\ exc = ""
    /\ console = <<>>

\* parse_pdf(page_text)
InitParse ==
    /\ NoProcess
    /\ pc = "called"
    /\ call \in {[fn |-> "parse_pdf", block |-> b, anchors |-> a, answer |-> t] :
                    b \in Blocks, a \in Anchors, t \in Answers}
    /\ ret = Raised("", FALSE)

CallParsePdf ==
    /\ pc = "called"
    /\ call.fn = "parse_pdf"
    /\ ret' = parse_pdf(page_of(call), call.answer)
    /\ pc' = "returned"
    /\ UNCHANGED <<main_vars, call>>

SpecParse == InitParse /\ [][CallParsePdf]_vars

\* Asset.to_string()
InitRender ==
    /\ NoProcess
    /\ pc = "called"
    /\ call \in {[fn |-> "to_string", self |-> a] : a \in Assets}
    /\ ret = ""

CallToString ==
    /\ pc = "called"
    /\ call.fn = "to_string"
    /\ ret' = to_string(call.self)
    /\ pc' = "returned"
    /\ UNCHANGED <<main_vars, call>>

SpecRender == InitRender /\ [][CallToString]_vars

\* check_for_common_categories(name)
InitCategory ==
    /\ NoProcess
    /\ pc = "called"
    /\ call \in {[fn |-> "check_for_common_categories", name |-> n] : n \in Names}
    /\ ret = None

CallCheckForCommonCategories ==
    /\ pc = "called"
    /\ call.fn = "check_for_common_categories"
    /\ ret' = check_for_common_categories(call.name)
    /\ pc' = "returned"
    /\ UNCHANGED <<main_vars, call>>

SpecCategory == InitCategory /\ [][CallCheckForCommonCategories]_vars


(***************************************************************************)
(* What the claims are stated with.                                        *)
(***************************************************************************)

\* the rows the program has to write for a file of the disk, given the
\* category the operator typed
expected_rows(pdf_name, answer) ==
    LET category == IF answer = "monitor" THEN "Monitor" ELSE answer
    IN  CASE pdf_name = "a.pdf" ->
               "Latitude Laptop Dell 5440,Laptop,Naples Office,2024-03-14,1250.50,Latitude Laptop,LT-5440,SN7,531363,true,2024-03-14\n"
          [] pdf_name = "d.pdf" ->
               "ModelX Widget Pro," \o category \o ",Naples Office,2024-03-14,500.00,ModelX,MN-100,SN1,531363,true,2024-03-14\n"
               \o "ModelX Widget Pro," \o category \o ",Naples Office,2024-03-14,500.00,ModelX,MN-100,SN2,531363,true,2024-03-14\n"
          [] OTHER -> ""

missing(pdf_name) == pdf_name \notin {"a.pdf", "c.pdf", "d.pdf"}
asks_category(pdf_name) == pdf_name = "d.pdf"

\* the args of the lines of one kind on the terminal, in order
RECURSIVE shown_args(_, _)
shown_args(lines, ev) ==
    IF Len(lines) = 0 THEN <<>>
    ELSE (IF Head(lines).ev = ev THEN <<Head(lines).arg>> ELSE <<>>)
         \o shown_args(Tail(lines), ev)

RECURSIVE expected_content(_, _)
\* the rows of the documents of names, the documents that ask for a category
\* taking the typed answers in order
expected_content(names, answers) ==
    IF Len(names) = 0 THEN ""
    ELSE IF asks_category(Head(names))
    THEN expected_rows(Head(names), Head(answers))
         \o expected_content(Tail(names), Tail(answers))
    ELSE expected_rows(Head(names), "") \o expected_content(Tail(names), answers)

\* the first n of a list
first_n(list, n) == SubSeq(list, 1, n)

in_loop == pc \in {"loop", "done"} \/ (pc = "crashed" /\ csv /= None)

(***************************************************************************)
(* C1: in a batch with missing documents, every missing document is        *)
(* reported as not found and skipped, the loop reaches every later file    *)
(* name, and the output holds the rows of every document that is there.    *)
(***************************************************************************)
some_missing(names) == \E k \in 1..Len(names) : missing(names[k])

\* C1: a batch with missing documents reports them, reaches its last file
\* name and holds the rows of every document that is there
C1_MissingIsSkipped ==
    (in_loop /\ some_missing(pdf_names)) =>
        \* every missing document the loop has met is reported, in order
        /\ shown_args(console, "not found") = SelectSeq(first_n(pdf_names, i), missing)
        \* the loop does not end before the last file name
        /\ pc /= "loop" =>
              /\ pc = "done"
              /\ i = Len(pdf_names)
              /\ csv = Some(CSV_HEADER \o expected_content(pdf_names,
                                            shown_args(console, "category typed")))

(***************************************************************************)
(* C2: a failure of the extraction in one document is caught by the loop   *)
(* and ends that document only: the process never ends on it.              *)
(***************************************************************************)
C2_FailureIsLocal ==
    ~(pc = "crashed" /\ csv /= None /\ exc \in {"IndexError", "TypeError"})

(***************************************************************************)
(* C3: on a page without the START anchor or without the END anchor        *)
(* parse_pdf fails with an anchor-not-found error.                         *)
(***************************************************************************)
C3_AnchorNotFound ==
    (/\ pc = "returned"
     /\ \/ find(page_of(call), START_STRING) = -1
        \/ find(page_of(call), END_STRING) = -1)
    => ret.exc = "AnchorNotFound"

(***************************************************************************)
(* C4, as claimed: of an item block                                        *)
(* "<model_number>: <quantity>  <unit price>  <total price>  <model>,      *)
(* <name> Serial Numbers: <s1>, ..., <sn>" the extractor yields the model  *)
(* number, the unit price without "$" and ",", the model, the name and the *)
(* serial numbers.                                                         *)
(***************************************************************************)
clean_price(price) == replace(replace(price, "$", ""), ",", "")

no_comma(text) == find(text, ",") = -1

RECURSIVE all_no_comma(_)
all_no_comma(list) ==
    Len(list) = 0 \/ (no_comma(Head(list)) /\ all_no_comma(Tail(list)))

\* the fields of the row of the k-th serial number, in the header's order
row_fields(self, k) ==
    <<self.name, self.category, self.location, self.date, self.price, self.model,
      self.model_no, self.serial_nos[k], self.order_no, self.requestable,
      self.last_audit_date>>

no_comma_asset(self) ==
    /\ all_no_comma(self.serial_nos)
    /\ all_no_comma(<<self.name, self.category, self.location, self.date, self.price,
                      self.model, self.model_no, self.order_no, self.requestable,
                      self.last_audit_date>>)

RECURSIVE rows_from(_, _, _)
\* whether text is the rows of the serial numbers from the k-th on, each row
\* the 11 fields of the header split at the commas, and a line break
rows_from(self, k, text) ==
    IF k > Len(self.serial_nos) THEN text = ""
    ELSE LET row == join(",", row_fields(self, k)) \o "\n"
         IN  /\ slice_to(text, Len(row)) = row
             /\ Len(split(CSV_HEADER, ",")) = 11
             /\ split(slice_to(row, -1), ",") = row_fields(self, k)
             /\ rows_from(self, k + 1, slice_from(text, Len(row)))

\* C5: without commas in the fields, to_string gives the row of every serial
\* number in order, each with the 11 fields of the header
C5_OneRowPerSerial ==
    (pc = "returned" /\ no_comma_asset(call.self)) => rows_from(call.self, 1, ret)

\* two rows for a serial number that is there twice
C5_Witness ==
    /\ pc = "returned"
    /\ no_comma_asset(call.self)
    /\ call.self.serial_nos = <<"SN2", "SN2">>
    /\ Len(splitlines(ret)) = 2

(***************************************************************************)
(* C6: when the item name that parse_pdf extracts holds a known category,  *)
(* the asset has the known category matched in that name and the operator  *)
(* is not asked.                                                           *)
(***************************************************************************)
C6_KnownCategoryNoPrompt ==
    (/\ pc = "returned"
     /\ call.anchors = "both"
     /\ ret.exc = ""
     /\ check_for_common_categories(ret.asset.name) /= None)
    => /\ ~ret.prompted
       /\ Some(ret.asset.category) = check_for_common_categories(ret.asset.name)

(***************************************************************************)
(* C7: no Asset is made with an empty category: when the operator types    *)
(* nothing, the classification fails.                                      *)
(***************************************************************************)
C7_CategoryNotEmpty ==
    (pc = "returned" /\ call.anchors = "both" /\ ret.exc = "")
    => ret.asset.category /= ""

(***************************************************************************)
(* C8: with "-h" or "--help" anywhere among the arguments, the process     *)
(* prints the usage message and exits normally before anything else.       *)
(***************************************************************************)
asks_help(args) == \E k \in 1..Len(args) : args[k] = "-h" \/ args[k] = "--help"

\* C8: once check_for_flags is over, a command line with a help flag has
\* printed the usage, exited normally and done nothing else
C8_HelpFirst ==
    (asks_help(cmdline) /\ pc /= "check_for_flags")
    => /\ pc = "exited"
       /\ exc = ""
       /\ console = <<Line("usage", "")>>
       /\ pdf_names = <<>>
       /\ csv = None

(***************************************************************************)
(* C9: check_for_common_categories gives the category that is last in      *)
(* COMMON_CATEGORIES among those the name holds, whatever the case of the  *)
(* letters and wherever they are in the name, and None if it holds none.   *)
(***************************************************************************)
\* whether text holds word at some place, the case of the letters aside
holds(text, word) ==
    \E p \in 1..Len(text) :
        /\ p + Len(word) - 1 <= Len(text)
        /\ lower(SubSeq(text, p, p + Len(word) - 1)) = lower(word)

held_categories(text) ==
    {k \in 1..Len(COMMON_CATEGORIES) : holds(text, COMMON_CATEGORIES[k])}

\* C9: the result is the held category that is last in the list, or None
C9_LastCategoryWins ==
    pc = "returned" =>
        IF held_categories(call.name) = {} THEN ret = None
        ELSE \E k \in held_categories(call.name) :
                /\ \A j \in held_categories(call.name) : j <= k
                /\ ret = Some(COMMON_CATEGORIES[k])

\* the name holds "switch" before "LAPTOP": the result is "Switch", the later
\* of the two in COMMON_CATEGORIES
C9_Witness ==
    /\ pc = "returned"
    /\ call.name = "switch Access LAPTOP"
    /\ ret = Some("Switch")

(***************************************************************************)
(* C10: the stream is opened with the header, once; from then on each step *)
(* leaves its content as it is or adds to its end the whole rows of the    *)
(* document of that turn, and only when that document is done; nothing     *)
(* written is ever taken back.                                             *)
(***************************************************************************)
C10_Step ==
    IF csv = None THEN csv' = None \/ (csv' = Some(CSV_HEADER) /\ i' = 0)
    ELSE /\ csv' /= None
         /\ slice_to(csv'[1], Len(CSV_HEADER)) = CSV_HEADER
         /\ \/ /\ csv' = csv
               /\ shown_args(console', "finished") = shown_args(console, "finished")
            \/ /\ i' = i + 1
               /\ shown_args(console', "finished")
                     = Append(shown_args(console, "finished"), item_at(pdf_names, i))
               /\ \E answer \in Answers :
                     /\ expected_rows(item_at(pdf_names, i), answer) /= ""
                     /\ asks_category(item_at(pdf_names, i)) =>
                           shown_args(console', "category typed")
                              = Append(shown_args(console, "category typed"), answer)
                     /\ csv' = Some(csv[1] \o expected_rows(item_at(pdf_names, i), answer))

\* the content at a point of the batch: the header, then the rows of the
\* documents that are finished, in the order of the file names
has_rows(pdf_name) == expected_rows(pdf_name, "") /= ""

\* C10: at every point the content is the header and the whole rows of the
\* finished documents in order
C10_Content ==
    (csv /= None) =>
        /\ shown_args(console, "finished") = SelectSeq(first_n(pdf_names, i), has_rows)
        /\ csv = Some(CSV_HEADER \o expected_content(shown_args(console, "finished"),
                                      shown_args(console, "category typed")))

\* C10: the content is as above at every point, and every step only adds
\* whole rows to its end
C10_AppendOnly == [](C10_Content) /\ [][C10_Step]_vars

\* rows are there, and a later document has ended the process
C10_Witness ==
    /\ pc = "crashed"
    /\ pdf_names = <<"d.pdf", "a.pdf", "c.pdf">>
    /\ csv = Some(CSV_HEADER \o expected_rows("d.pdf", "monitor")
                  \o expected_rows("a.pdf", ""))

====
